---------------------------- MODULE Spec2Model ----------------------------
(***************************************************************************)
(* A model of server.js of opendatacam: the stdout interceptor (rolling    *)
(* log buffer and resolution scraping), the HTTP handlers for the engine,  *)
(* the MJPEG relay, the event stream, the recording routes and the read    *)
(* endpoints, and the process-level shutdown and uncaught-exception        *)
(* handlers.                                                               *)
(*                                                                         *)
(* Text is a sequence of one-character strings.  A JavaScript number is a  *)
(* record [nan, val]; null is the record Null.  The collaborators whose    *)
(* code is outside server.js (YOLO, Opendatacam) are modelled from their   *)
(* contract in the specification and are marked so where they appear.      *)
(*                                                                         *)
(* Specifications: SpecLog (the interceptor on every chunk, the long one   *)
(* included), SpecProcess (engine start, faults, signals, exit) and its    *)
(* fair form SpecProcessFair, SpecStreams (the MJPEG and event-stream      *)
(* routes), SpecRecording (the recording routes), SpecReads (the read      *)
(* endpoints among the handlers that write what they read) and Spec        *)
(* (every action).                                                         *)
(***************************************************************************)
EXTENDS Integers, Sequences, FiniteSets

\* ------------------------------------------------------------------ bounds
MaxChunks == 3          \* chunks delivered to the interceptor in SpecLog
FillerLen == 1495       \* length of the long plain chunk
MaxAnnouncements == 2   \* chunks delivered to the interceptor in Spec
MaxClients == 2         \* HTTP clients of each streaming route
MaxFrames == 2          \* detection frames published
MaxFaults == 1          \* exceptions thrown by callbacks outside server.js
MaxRecordings == 2      \* recording sessions created
MaxTime == 2            \* ticks of the clock

\* --------------------------------------------------------- program constants
BufferCapacity == 3000
SimulatedWidth == 1280
SimulatedHeight == 720

\* ------------------------------------------------------------ JS values
Null == [kind |-> "null"]
NaN == [nan |-> TRUE, val |-> 0]
Num(n) == [nan |-> FALSE, val |-> n]
Resolution(w, h) == [kind |-> "resolution", w |-> w, h |-> h]

\* ------------------------------------------------------------ JS strings
Whitespace == {" ", "\t", "\n", "\r", "\f"}
DecDigit ==
  [c \in {"0", "1", "2", "3", "4", "5", "6", "7", "8", "9"} |->
     CASE c = "0" -> 0 [] c = "1" -> 1 [] c = "2" -> 2 [] c = "3" -> 3
       [] c = "4" -> 4 [] c = "5" -> 5 [] c = "6" -> 6 [] c = "7" -> 7
       [] c = "8" -> 8 [] c = "9" -> 9]
HexDigit ==
  [c \in (DOMAIN DecDigit) \cup {"a", "b", "c", "d", "e", "f", "A", "B", "C", "D", "E", "F"} |->
     CASE c \in DOMAIN DecDigit -> DecDigit[c]
       [] c \in {"a", "A"} -> 10 [] c \in {"b", "B"} -> 11 [] c \in {"c", "C"} -> 12
       [] c \in {"d", "D"} -> 13 [] c \in {"e", "E"} -> 14 [] c \in {"f", "F"} -> 15]

\* String.prototype.indexOf(p): the 0-based index of the first occurrence, or -1.
IndexOf(s, p) ==
  LET hits == {i \in 1..(Len(s) - Len(p) + 1) :
                 s[i] = p[1] /\ SubSeq(s, i, i + Len(p) - 1) = p}
  IN IF hits = {} THEN -1 ELSE (CHOOSE i \in hits : \A j \in hits : i <= j) - 1

\* String.prototype.split(sep) for a non-empty separator: the array of pieces.
RECURSIVE Split(_, _)
Split(s, sep) ==
  LET i == IndexOf(s, sep)
  IN IF i = -1 THEN <<s>>
     ELSE <<SubSeq(s, 1, i)>> \o Split(SubSeq(s, i + Len(sep) + 1, Len(s)), sep)

\* String.prototype.trim(): white space removed from both ends.
Trim(s) ==
  LET keep == {i \in 1..Len(s) : s[i] \notin Whitespace}
  IN IF keep = {} THEN <<>>
     ELSE SubSeq(s, CHOOSE i \in keep : \A j \in keep : i <= j,
                    CHOOSE i \in keep : \A j \in keep : i >= j)

\* The value of the longest prefix of s made of digits of the radix, or NaN.
RECURSIVE DigitsValue(_, _, _, _)
DigitsValue(s, digit, radix, acc) ==
  IF s = <<>> \/ s[1] \notin DOMAIN digit THEN acc
  ELSE DigitsValue(Tail(s), digit, radix, acc * radix + digit[s[1]])

\* parseInt(s): leading white space skipped, an optional sign, a 0x prefix
\* selecting radix 16, then digits up to the first other character.
ParseInt(s) ==
  LET lead == {i \in 1..Len(s) : s[i] \notin Whitespace}
      t == IF lead = {} THEN <<>>
           ELSE SubSeq(s, CHOOSE i \in lead : \A j \in lead : i <= j, Len(s))
      signed == t # <<>> /\ t[1] \in {"+", "-"}
      u == IF signed THEN Tail(t) ELSE t
      hex == Len(u) >= 2 /\ u[1] = "0" /\ u[2] \in {"x", "X"}
      body == IF hex THEN SubSeq(u, 3, Len(u)) ELSE u
      digit == IF hex THEN HexDigit ELSE DecDigit
      value == DigitsValue(body, digit, IF hex THEN 16 ELSE 10, 0)
  IN IF body = <<>> \/ body[1] \notin DOMAIN digit THEN NaN
     ELSE Num(IF signed /\ t[1] = "-" THEN 0 - value ELSE value)

\* ------------------------------------------------------------ texts
Marker ==
  <<"V", "i", "d", "e", "o", " ", "s", "t", "r", "e", "a", "m", ":">>

StreamSep ==
  <<"s", "t", "r", "e", "a", "m", ":">>

\* "Video stream: 640 x 480\n"
ChunkGood ==
  <<"V", "i", "d", "e", "o", " ", "s", "t", "r", "e", "a", "m", ":", " ", "6", "4", "0", " ",
    "x", " ", "4", "8", "0", "\n">>

\* "fps: 25\nVideo stream:  1280 x 720 \nLoading weights\n"
ChunkGoodInContext ==
  <<"f", "p", "s", ":", " ", "2", "5", "\n", "V", "i", "d", "e", "o", " ", "s", "t", "r", "e",
    "a", "m", ":", " ", " ", "1", "2", "8", "0", " ", "x", " ", "7", "2", "0", " ", "\n", "L",
    "o", "a", "d", "i", "n", "g", " ", "w", "e", "i", "g", "h", "t", "s", "\n">>

\* "Video stream: notanumber x 480\n"
ChunkNotANumber ==
  <<"V", "i", "d", "e", "o", " ", "s", "t", "r", "e", "a", "m", ":", " ", "n", "o", "t", "a",
    "n", "u", "m", "b", "e", "r", " ", "x", " ", "4", "8", "0", "\n">>

\* "Video stream: 640\n"
ChunkNoSeparator ==
  <<"V", "i", "d", "e", "o", " ", "s", "t", "r", "e", "a", "m", ":", " ", "6", "4", "0", "\n">>

\* "Audio stream: 1 x 2\nVideo stream: 640 x 480\n"
ChunkStreamBefore ==
  <<"A", "u", "d", "i", "o", " ", "s", "t", "r", "e", "a", "m", ":", " ", "1", " ", "x", " ",
    "2", "\n", "V", "i", "d", "e", "o", " ", "s", "t", "r", "e", "a", "m", ":", " ", "6", "4",
    "0", " ", "x", " ", "4", "8", "0", "\n">>

\* "Video stream: 640 x 480 stream: 1\n"
ChunkStreamAfter ==
  <<"V", "i", "d", "e", "o", " ", "s", "t", "r", "e", "a", "m", ":", " ", "6", "4", "0", " ",
    "x", " ", "4", "8", "0", " ", "s", "t", "r", "e", "a", "m", ":", " ", "1", "\n">>

\* "Video stream:" and " 640 x 480\n": one announcement split over two chunks
ChunkMarkerOnly ==
  <<"V", "i", "d", "e", "o", " ", "s", "t", "r", "e", "a", "m", ":">>

ChunkNumbersOnly ==
  <<" ", "6", "4", "0", " ", "x", " ", "4", "8", "0", "\n">>

\* "Done!\n"
ChunkPlain ==
  <<"D", "o", "n", "e", "!", "\n">>

\* FillerLen characters of plain log text, "1234567890123..."
ChunkFiller ==
  [i \in 1..FillerLen |->
     <<"0", "1", "2", "3", "4", "5", "6", "7", "8", "9">>[(i % 10) + 1]]

Announcements == {ChunkGood, ChunkNoSeparator}
Chunks ==
  Announcements \cup
    {ChunkGoodInContext, ChunkNotANumber, ChunkStreamBefore, ChunkStreamAfter,
     ChunkMarkerOnly, ChunkNumbersOnly, ChunkPlain, ChunkFiller}


\* The error the interceptor throws, as console.log renders its first line.
\* "TypeError: Cannot read property 'trim' of undefined"
ErrTrim ==
  <<"T", "y", "p", "e", "E", "r", "r", "o", "r", ":", " ", "C", "a", "n", "n", "o", "t", " ",
    "r", "e", "a", "d", " ", "p", "r", "o", "p", "e", "r", "t", "y", " ", "'", "t", "r", "i",
    "m", "'", " ", "o", "f", " ", "u", "n", "d", "e", "f", "i", "n", "e", "d">>

\* "Error: socket hang up"
ErrFault ==
  <<"E", "r", "r", "o", "r", ":", " ", "s", "o", "c", "k", "e", "t", " ", "h", "a", "n", "g",
    " ", "u", "p">>

NoErr == <<>>

\* ------------------------------------------------------------ state
VARIABLES
  simulation,         \* SIMULATION_MODE
  videoResolution,    \* var videoResolution
  trackerResolution,  \* the value last handed to Opendatacam.setVideoResolution
  stdoutBuffer,       \* var stdoutBuffer
  delivered,          \* history: every text handed to the interceptor, in order
  lastCall,           \* history: the last interceptor call and its outcome
  pc,                 \* "run" | "uncaught" | "exiting" | "dead"
  pendingErr,         \* the exception on its way to the top-level handler
  cleanCalls,         \* calls of Opendatacam.clean()
  shutdownEvents,     \* shutdown triggers: signals handled and process exits begun
  faults,             \* exceptions thrown by callbacks outside server.js
  yolo,               \* the engine: [state, spawned] (YOLO)
  lastStart,          \* history: the engine state the last YOLO.start() found
  isListeningToYOLO,  \* Opendatacam listens to the engine's detections
  sseConnexion,       \* the event-stream subscriber (a client), 0 when none
  sseOpen,            \* clients whose event-stream response is open
  sseWritten,         \* per client, the frame messages written to it
  sseClients,         \* GET /tracker/sse requests served
  frames,             \* detection frames published
  mjpeg,              \* the MJPEG relays made, one per GET /webcam/stream
  mjpegClients,       \* GET /webcam/stream requests served
  recording,          \* the recording mode: [isRecording, created, session]
  persisted,          \* the sessions handed to the storage collaborator, in order
  now,                \* the clock the session timestamps are read from
  lastRecCall,        \* history: the last recording call and the mode it found
  response            \* the last HTTP response sent by a modelled handler

logVars == <<videoResolution, trackerResolution, stdoutBuffer, delivered, lastCall>>
procVars == <<pc, pendingErr, cleanCalls, shutdownEvents, faults>>
engineVars == <<yolo, lastStart, isListeningToYOLO>>
sseVars == <<sseConnexion, sseOpen, sseWritten, sseClients, frames>>
mjpegVars == <<mjpeg, mjpegClients>>
recVars == <<recording, persisted, now, lastRecCall>>
vars == <<simulation, logVars, procVars, engineVars, sseVars, mjpegVars, recVars, response>>

\* ------------------------------------------------------------ initial state
\* The initial state without line 46: the preset is not handed to the tracker.
InitWithoutPush ==
  /\ simulation \in BOOLEAN
  /\ videoResolution =
       IF simulation THEN Resolution(Num(SimulatedWidth), Num(SimulatedHeight)) ELSE Null
  /\ trackerResolution = Null
  /\ stdoutBuffer = <<>>
  /\ delivered = <<>>
  /\ lastCall = [kind |-> "none"]
  /\ pc = "run"
  /\ pendingErr = NoErr
  /\ cleanCalls = 0
  /\ shutdownEvents = 0
  /\ faults = 0
  /\ yolo = [state |-> "NotStarted", spawned |-> 0]
  /\ lastStart = "none"
  /\ isListeningToYOLO = FALSE
  /\ sseConnexion = 0
  /\ sseOpen = {}
  /\ sseWritten = [c \in 1..MaxClients |-> <<>>]
  /\ sseClients = 0
  /\ frames = 0
  /\ mjpeg = {}
  /\ mjpegClients = 0
  /\ recording = [isRecording |-> FALSE, created |-> 0, session |-> Null]
  /\ persisted = <<>>
  /\ now = 0
  /\ lastRecCall = [op |-> "none"]
  /\ response = [route |-> "none"]

\* The state once lines 17-49 have run.
Init ==
  /\ simulation \in BOOLEAN
  /\ videoResolution =
       IF simulation THEN Resolution(Num(SimulatedWidth), Num(SimulatedHeight)) ELSE Null
  /\ trackerResolution = videoResolution
  /\ stdoutBuffer = <<>>
  /\ delivered = <<>>
  /\ lastCall = [kind |-> "none"]
  /\ pc = "run"
  /\ pendingErr = NoErr
  /\ cleanCalls = 0
  /\ shutdownEvents = 0
  /\ faults = 0
  /\ yolo = [state |-> "NotStarted", spawned |-> 0]
  /\ lastStart = "none"
  /\ isListeningToYOLO = FALSE
  /\ sseConnexion = 0
  /\ sseOpen = {}
  /\ sseWritten = [c \in 1..MaxClients |-> <<>>]
  /\ sseClients = 0
  /\ frames = 0
  /\ mjpeg = {}
  /\ mjpegClients = 0
  /\ recording = [isRecording |-> FALSE, created |-> 0, session |-> Null]
  /\ persisted = <<>>
  /\ now = 0
  /\ lastRecCall = [op |-> "none"]
  /\ response = [route |-> "none"]

\* ------------------------------------------------------------ the interceptor
\* The callback without line 62: the parsed resolution is never handed to
\* Opendatacam.setVideoResolution.
InterceptCallbackNoPush(text, vr, tr, buf) ==
  LET stdoutText == text
      found == IndexOf(stdoutText, Marker) > -1
      splitOnStream == Split(stdoutText, StreamSep)
      ratio == Split(splitOnStream[2], <<"\n">>)[1]
      byX == Split(ratio, <<"x">>)
      parsed == Resolution(ParseInt(Trim(byX[1])), ParseInt(Trim(byX[2])))
      appended == buf \o stdoutText
  IN IF found /\ Len(byX) < 2
     THEN [threw |-> TRUE, videoResolution |-> vr, trackerResolution |-> tr,
           stdoutBuffer |-> buf]
     ELSE [threw |-> FALSE,
           videoResolution |-> IF found THEN parsed ELSE vr,
           trackerResolution |-> tr,
           stdoutBuffer |->
             IF Len(appended) > BufferCapacity
             THEN SubSeq(appended, Len(appended) - BufferCapacity + 1, Len(appended))
             ELSE appended]

\* The callback taking the text that follows the marker 'Video stream:'.
InterceptCallbackAfterMarker(text, vr, tr, buf) ==
  LET stdoutText == text
      found == IndexOf(stdoutText, Marker) > -1
      splitOnStream == Split(stdoutText, Marker)
      ratio == Split(splitOnStream[2], <<"\n">>)[1]
      byX == Split(ratio, <<"x">>)
      parsed == Resolution(ParseInt(Trim(byX[1])), ParseInt(Trim(byX[2])))
      appended == buf \o stdoutText
  IN IF found /\ Len(byX) < 2
     THEN [threw |-> TRUE, videoResolution |-> vr, trackerResolution |-> tr,
           stdoutBuffer |-> buf]
     ELSE [threw |-> FALSE,
           videoResolution |-> IF found THEN parsed ELSE vr,
           trackerResolution |-> IF found THEN parsed ELSE tr,
           stdoutBuffer |->
             IF Len(appended) > BufferCapacity
             THEN SubSeq(appended, Len(appended) - BufferCapacity + 1, Len(appended))
             ELSE appended]

\* The callback given to intercept(): the outcome of one call on `text` from
\* the resolution vr, the tracker's copy tr and the buffer buf.  ratio.split("x")[1]
\* is undefined when the line holds no "x", and undefined.trim() throws a
\* TypeError before videoResolution is assigned.
InterceptCallback(text, vr, tr, buf) ==
  LET stdoutText == text
      found == IndexOf(stdoutText, Marker) > -1
      splitOnStream == Split(stdoutText, StreamSep)
      ratio == Split(splitOnStream[2], <<"\n">>)[1]
      byX == Split(ratio, <<"x">>)
      parsed == Resolution(ParseInt(Trim(byX[1])), ParseInt(Trim(byX[2])))
      appended == buf \o stdoutText
  IN IF found /\ Len(byX) < 2
     THEN [threw |-> TRUE, videoResolution |-> vr, trackerResolution |-> tr,
           stdoutBuffer |-> buf]
     ELSE [threw |-> FALSE,
           videoResolution |-> IF found THEN parsed ELSE vr,
           trackerResolution |-> IF found THEN parsed ELSE tr,
           stdoutBuffer |->
             IF Len(appended) > BufferCapacity
             THEN SubSeq(appended, Len(appended) - BufferCapacity + 1, Len(appended))
             ELSE appended]

\* One write to process.stdout: the interceptor runs on `text`; an exception it
\* throws propagates to the writer's caller and, uncaught there, to the top level.
Write(text) ==
  LET r == InterceptCallback(text, videoResolution, trackerResolution, stdoutBuffer)
  IN /\ videoResolution' = r.videoResolution
     /\ trackerResolution' = r.trackerResolution
     /\ stdoutBuffer' = r.stdoutBuffer
     /\ delivered' = Append(delivered, text)
     /\ lastCall' = [kind |-> "call", text |-> text, before |-> videoResolution,
                     threw |-> r.threw]

\* A chunk of engine output reaches process.stdout.
OnOutputChunk(text) ==
  /\ pc = "run"
  /\ Write(text)
  /\ LET r == InterceptCallback(text, videoResolution, trackerResolution, stdoutBuffer)
     IN /\ pc' = IF r.threw THEN "uncaught" ELSE "run"
        /\ pendingErr' = IF r.threw THEN ErrTrim ELSE NoErr
  /\ UNCHANGED <<simulation, cleanCalls, shutdownEvents, faults>>
  /\ UNCHANGED <<engineVars, sseVars, mjpegVars, recVars, response>>

\* ------------------------------------------------------------ process handlers
\* The first argument of console.log in the uncaughtException handler.
UncaughtPrefix ==
  <<"P", "h", "e", "e", "w", " ", ".", ".", ".", ".", "!", " ", "S", "o", "m", "e", "t", "h",
    "i", "n", "g", " ", "u", "n", "e", "x", "p", "e", "c", "t", "e", "d", " ", "h", "a", "p",
    "p", "e", "n", "e", "d", ".", " ", "T", "h", "i", "s", " ", "s", "h", "o", "u", "l", "d",
    " ", "b", "e", " ", "h", "a", "n", "d", "l", "e", "d", " ", "m", "o", "r", "e", " ", "g",
    "r", "a", "c", "e", "f", "u", "l", "l", "y", ".", " ", "I", " ", "a", "m", " ", "s", "o",
    "r", "r", "y", ".", " ", "T", "h", "e", " ", "c", "u", "l", "p", "r", "i", "t", " ", "i",
    "s", ":", " ">>

\* console.log(a, b): the arguments joined by a space, and a line end.
ConsoleLog2(a, b) == a \o <<" ">> \o b \o <<"\n">>
ConsoleLog1(a) == a \o <<"\n">>

SigInt == <<"S", "I", "G", "I", "N", "T">>
SigUsr1 == <<"S", "I", "G", "U", "S", "R", "1">>
SigUsr2 == <<"S", "I", "G", "U", "S", "R", "2">>
Signals == {SigInt, SigUsr1, SigUsr2}
ExitCodeZero == <<"0">>

\* exitHandler(options, exitCode): clean(), the exit code logged, and
\* process.exit() when options.exit; `after` is where the process is once the
\* handler has returned without calling process.exit().
ExitHandler(exit, exitCode, after) ==
  LET r == InterceptCallback(ConsoleLog1(exitCode), videoResolution, trackerResolution,
                             stdoutBuffer)
  IN /\ cleanCalls' = cleanCalls + 1
     /\ Write(ConsoleLog1(exitCode))
     /\ pc' = IF after = "dead" THEN "dead"
              ELSE IF r.threw THEN "uncaught"
              ELSE IF exit THEN "exiting" ELSE after
     /\ pendingErr' = IF r.threw /\ after # "dead" THEN ErrTrim ELSE NoErr

\* process.on('SIGINT' | 'SIGUSR1' | 'SIGUSR2', exitHandler.bind(null, {exit:true}))
Signal(sig) ==
  /\ pc = "run"
  /\ ExitHandler(TRUE, sig, "run")
  /\ shutdownEvents' = shutdownEvents + 1
  /\ UNCHANGED <<simulation, faults, engineVars, sseVars, mjpegVars, recVars, response>>

\* The process begins a normal exit: the 'exit' event is about to be emitted.
ProcessExit ==
  /\ pc = "run"
  /\ pc' = "exiting"
  /\ shutdownEvents' = shutdownEvents + 1
  /\ UNCHANGED <<simulation, logVars, pendingErr, cleanCalls, faults>>
  /\ UNCHANGED <<engineVars, sseVars, mjpegVars, recVars, response>>

\* The 'exit' listener bound with {exit:true}: it calls process.exit() again.
ExitEventRequestsExit ==
  /\ pc = "exiting"
  /\ ExitHandler(TRUE, ExitCodeZero, "run")
  /\ UNCHANGED <<simulation, shutdownEvents, faults>>
  /\ UNCHANGED <<engineVars, sseVars, mjpegVars, recVars, response>>

\* process.on('exit', exitHandler.bind(null, {cleanup:true})), then the process ends.
ExitEvent ==
  /\ pc = "exiting"
  /\ ExitHandler(FALSE, ExitCodeZero, "dead")
  /\ UNCHANGED <<simulation, shutdownEvents, faults>>
  /\ UNCHANGED <<engineVars, sseVars, mjpegVars, recVars, response>>

\* A callback outside server.js throws and nothing catches it.
Fault ==
  /\ pc = "run"
  /\ faults < MaxFaults
  /\ faults' = faults + 1
  /\ pc' = "uncaught"
  /\ pendingErr' = ErrFault
  /\ UNCHANGED <<simulation, logVars, cleanCalls, shutdownEvents>>
  /\ UNCHANGED <<engineVars, sseVars, mjpegVars, recVars, response>>

\* The commented-out handler of line 546: exitHandler.bind(null, {exit:true}).
UncaughtExceptionExits ==
  /\ pc = "uncaught"
  /\ ExitHandler(TRUE, pendingErr, "run")
  /\ UNCHANGED <<simulation, shutdownEvents, faults>>
  /\ UNCHANGED <<engineVars, sseVars, mjpegVars, recVars, response>>

\* process.on('uncaughtException', ...): the error is logged, nothing else.  An
\* exception thrown by the handler itself (by the interceptor, on the logged
\* text) ends the process.
UncaughtException ==
  LET text == ConsoleLog2(UncaughtPrefix, pendingErr)
      r == InterceptCallback(text, videoResolution, trackerResolution, stdoutBuffer)
  IN /\ pc = "uncaught"
     /\ Write(text)
     /\ pc' = IF r.threw THEN "exiting" ELSE "run"
     /\ pendingErr' = NoErr
     /\ shutdownEvents' = IF r.threw THEN shutdownEvents + 1 ELSE shutdownEvents
     /\ UNCHANGED <<simulation, cleanCalls, faults>>
     /\ UNCHANGED <<engineVars, sseVars, mjpegVars, recVars, response>>



\* ------------------------------------------------------------ the engine
\* YOLO.start(), from its contract: a no-op when Starting or Started, else the
\* engine process is spawned and the state is Starting.
YoloStart(y) ==
  IF y.state = "NotStarted"
  THEN [state |-> "Starting", spawned |-> y.spawned + 1]
  ELSE y

\* YOLO.init(): the state a (re-)initialised supervisor is in.
YoloInit(y) == [state |-> "NotStarted", spawned |-> y.spawned]

\* The engine confirms it is up: Starting -> Started.
YoloConfirmed ==
  /\ pc = "run"
  /\ yolo.state = "Starting"
  /\ yolo' = [yolo EXCEPT !.state = "Started"]
  /\ UNCHANGED <<simulation, logVars, procVars, lastStart, isListeningToYOLO, sseVars,
                 mjpegVars, recVars, response>>

\* GET / with YOLO re-initialised before it is started.
RootReinitialises ==
  /\ pc = "run"
  /\ yolo' = YoloStart(YoloInit(yolo))
  /\ lastStart' = yolo.state
  /\ isListeningToYOLO' = TRUE
  /\ response' = [route |-> "/", status |-> 200]
  /\ UNCHANGED <<simulation, logVars, procVars, sseVars, mjpegVars, recVars>>

\* GET /: YOLO.start(), Opendatacam.listenToYOLO(urlData), the page rendered.
Root ==
  /\ pc = "run"
  /\ yolo' = YoloStart(yolo)
  /\ lastStart' = yolo.state
  /\ isListeningToYOLO' = TRUE
  /\ response' = [route |-> "/", status |-> 200]
  /\ UNCHANGED <<simulation, logVars, procVars, sseVars, mjpegVars, recVars>>

\* ------------------------------------------------------------ MJPEG relay
\* GET /webcam/stream: a new MjpegProxy for this request alone; the handler keeps
\* no reference to an earlier proxy or response.  The upstream connection is
\* open when the engine serves video (Started) and refused before; what the
\* client is answered when it is refused is decided inside mjpeg-proxy.
WebcamStream ==
  /\ pc = "run"
  /\ mjpegClients < MaxClients
  /\ mjpegClients' = mjpegClients + 1
  /\ mjpeg' = mjpeg \cup
       {[client |-> mjpegClients + 1,
         upstream |-> IF yolo.state = "Started" THEN "open" ELSE "refused"]}
  /\ UNCHANGED <<simulation, logVars, procVars, engineVars, sseVars, recVars, response>>

\* ------------------------------------------------------------ event stream
\* Opendatacam.startStreamingData(sse), from the contract of subscribe: the
\* channel becomes the sole live subscriber, a prior one is closed and replaced.
StartStreamingData(c, connexion, open) ==
  [sseConnexion |-> c, sseOpen |-> open \ ({connexion} \ {c})]

\* GET /tracker/sse handing res.sse over only when nobody is subscribed yet.
TrackerSseFirstOnly ==
  LET c == sseClients + 1
      opened == sseOpen \cup {c}
      r == IF sseConnexion = 0 THEN StartStreamingData(c, sseConnexion, opened)
           ELSE [sseConnexion |-> sseConnexion, sseOpen |-> opened]
  IN /\ pc = "run"
     /\ sseClients < MaxClients
     /\ sseClients' = c
     /\ sseConnexion' = r.sseConnexion
     /\ sseOpen' = r.sseOpen
     /\ UNCHANGED <<simulation, logVars, procVars, engineVars, sseWritten, frames,
                    mjpegVars, recVars, response>>

\* GET /tracker/sse writing the latest frame to the new subscriber.
TrackerSseReplaysLast ==
  LET c == sseClients + 1
      opened == sseOpen \cup {c}
      r == StartStreamingData(c, sseConnexion, opened)
  IN /\ pc = "run"
     /\ sseClients < MaxClients
     /\ sseClients' = c
     /\ sseConnexion' = r.sseConnexion
     /\ sseOpen' = r.sseOpen
     /\ sseWritten' =
          IF frames = 0 THEN sseWritten
          ELSE [sseWritten EXCEPT ![c] =
                  Append(@, [frame |-> frames, videoResolution |-> trackerResolution])]
     /\ UNCHANGED <<simulation, logVars, procVars, engineVars, frames,
                    mjpegVars, recVars, response>>

\* GET /tracker/sse: the sse middleware opens the event stream of this client,
\* the handler hands res.sse to Opendatacam.
TrackerSse ==
  LET c == sseClients + 1
      opened == sseOpen \cup {c}
      r == StartStreamingData(c, sseConnexion, opened)
  IN /\ pc = "run"
     /\ sseClients < MaxClients
     /\ sseClients' = c
     /\ sseConnexion' = r.sseConnexion
     /\ sseOpen' = r.sseOpen
     /\ UNCHANGED <<simulation, logVars, procVars, engineVars, sseWritten, frames,
                    mjpegVars, recVars, response>>

\* publishFrame, from its contract: one message, holding the resolution current
\* at the call, written to the subscriber if there is one; nothing is kept.
PublishFrame ==
  /\ pc = "run"
  /\ frames < MaxFrames
  /\ frames' = frames + 1
  /\ sseWritten' =
       IF sseConnexion = 0 THEN sseWritten
       ELSE [sseWritten EXCEPT ![sseConnexion] =
               Append(@, [frame |-> frames + 1, videoResolution |-> trackerResolution])]
  /\ UNCHANGED <<simulation, logVars, procVars, engineVars, sseConnexion, sseOpen,
                 sseClients, mjpegVars, recVars, response>>

\* ------------------------------------------------------------ read endpoints
\* A response body is [json |-> value] when sent by res.json and [text |-> string]
\* when sent by res.send.
\* GET /webcam/resolution: res.json(videoResolution)
WebcamResolution ==
  /\ pc = "run"
  /\ response' = [route |-> "/webcam/resolution", status |-> 200,
                  body |-> [json |-> videoResolution]]
  /\ UNCHANGED <<simulation, logVars, procVars, engineVars, sseVars, mjpegVars, recVars>>

\* GET /console emptying the buffer once it is sent.
ConsoleClears ==
  /\ pc = "run"
  /\ response' = [route |-> "/console", status |-> 200, body |-> [text |-> stdoutBuffer]]
  /\ stdoutBuffer' = <<>>
  /\ UNCHANGED <<simulation, videoResolution, trackerResolution, delivered, lastCall,
                 procVars, engineVars, sseVars, mjpegVars, recVars>>

\* GET /console: res.send(stdoutBuffer)
Console ==
  /\ pc = "run"
  /\ response' = [route |-> "/console", status |-> 200, body |-> [text |-> stdoutBuffer]]
  /\ UNCHANGED <<simulation, logVars, procVars, engineVars, sseVars, mjpegVars, recVars>>

\* ------------------------------------------------------------ recording
\* Opendatacam.startRecording(), from the contract of start(): a no-op when a
\* session is active, else a new session stamped with the current time.
StartRecording(rec, store, t) ==
  [recording |->
     IF rec.isRecording THEN rec
     ELSE [isRecording |-> TRUE, created |-> rec.created + 1,
           session |-> [id |-> rec.created + 1, dateStart |-> t]],
   persisted |-> store]

\* Opendatacam.stopRecording(), from the contract of stop(): a no-op when no
\* session is active, else the session is stamped with its end time and
\* handed to the storage collaborator.
StopRecording(rec, store, t) ==
  IF rec.isRecording
  THEN [recording |-> [isRecording |-> FALSE, created |-> rec.created, session |-> Null],
        persisted |-> Append(store, [id |-> rec.session.id,
                                     dateStart |-> rec.session.dateStart,
                                     dateEnd |-> t])]
  ELSE [recording |-> rec, persisted |-> store]

\* GET /recording/start stopping the active session before it starts one.
RecordingStartRestarts ==
  LET stopped == StopRecording(recording, persisted, now)
      r == StartRecording(stopped.recording, stopped.persisted, now)
  IN /\ pc = "run"
     /\ recording.isRecording \/ recording.created < MaxRecordings
     /\ recording' = r.recording
     /\ persisted' = r.persisted
     /\ lastRecCall' = [op |-> "start", wasRecording |-> recording.isRecording]
     /\ response' = [route |-> "/recording/start", status |-> 200]
     /\ UNCHANGED <<simulation, logVars, procVars, engineVars, sseVars, mjpegVars, now>>

\* GET /recording/start: Opendatacam.startRecording(); res.sendStatus(200)
RecordingStart ==
  LET r == StartRecording(recording, persisted, now)
  IN /\ pc = "run"
     /\ recording.isRecording \/ recording.created < MaxRecordings
     /\ recording' = r.recording
     /\ persisted' = r.persisted
     /\ lastRecCall' = [op |-> "start", wasRecording |-> recording.isRecording]
     /\ response' = [route |-> "/recording/start", status |-> 200]
     /\ UNCHANGED <<simulation, logVars, procVars, engineVars, sseVars, mjpegVars, now>>

\* GET /recording/stop calling startRecording() in place of stopRecording().
RecordingStopStarts ==
  LET r == StartRecording(recording, persisted, now)
  IN /\ pc = "run"
     /\ recording' = r.recording
     /\ persisted' = r.persisted
     /\ lastRecCall' = [op |-> "stop", wasRecording |-> recording.isRecording]
     /\ response' = [route |-> "/recording/stop", status |-> 200]
     /\ UNCHANGED <<simulation, logVars, procVars, engineVars, sseVars, mjpegVars, now>>

\* GET /recording/stop: Opendatacam.stopRecording(); res.sendStatus(200)
RecordingStop ==
  LET r == StopRecording(recording, persisted, now)
  IN /\ pc = "run"
     /\ recording' = r.recording
     /\ persisted' = r.persisted
     /\ lastRecCall' = [op |-> "stop", wasRecording |-> recording.isRecording]
     /\ response' = [route |-> "/recording/stop", status |-> 200]
     /\ UNCHANGED <<simulation, logVars, procVars, engineVars, sseVars, mjpegVars, now>>

\* Time passes.
Tick ==
  /\ now < MaxTime
  /\ now' = now + 1
  /\ UNCHANGED <<simulation, logVars, procVars, engineVars, sseVars, mjpegVars,
                 recording, persisted, lastRecCall, response>>

\* ------------------------------------------------------------ specifications
DeliverChunk ==
  \E text \in Chunks : Len(delivered) < MaxChunks /\ OnOutputChunk(text)

DeliverAnnouncement ==
  \E text \in Announcements : Len(delivered) < MaxAnnouncements /\ OnOutputChunk(text)

SignalArrives ==
  \E sig \in Signals : Signal(sig)

\* Output that fills the buffer, and an announcement.
LoggedChunks == {ChunkFiller, ChunkGood}

DeliverLogged ==
  \E text \in LoggedChunks : Len(delivered) < MaxChunks /\ OnOutputChunk(text)

\* The interceptor in depth: every chunk, the long one included.
NextLog ==
  \/ DeliverChunk
  \/ UncaughtException

SpecLog == Init /\ [][NextLog]_vars

\* The engine and the life of the process: start, faults, signals, exit.
NextProcess ==
  \/ DeliverAnnouncement
  \/ UncaughtException
  \/ Fault
  \/ SignalArrives
  \/ ProcessExit
  \/ ExitEvent
  \/ Root
  \/ YoloConfirmed

SpecProcess == Init /\ [][NextProcess]_vars

\* process.exit() emits 'exit' before it returns: an exit that has begun is
\* not left waiting.
SpecProcessFair == SpecProcess /\ WF_vars(ExitEvent)

\* The two streaming routes, with the engine and its announcements.
NextStreams ==
  \/ DeliverAnnouncement
  \/ UncaughtException
  \/ Root
  \/ YoloConfirmed
  \/ WebcamStream
  \/ TrackerSse
  \/ PublishFrame

SpecStreams == Init /\ [][NextStreams]_vars

\* The recording routes, with the engine start and the clock.
NextRecording ==
  \/ RecordingStart
  \/ RecordingStop
  \/ Tick
  \/ Root
  \/ YoloConfirmed

SpecRecording == Init /\ [][NextRecording]_vars

\* The read endpoints, among the handlers that write what they read.
NextReads ==
  \/ DeliverLogged
  \/ Root
  \/ YoloConfirmed
  \/ RecordingStart
  \/ WebcamResolution
  \/ Console

SpecReads == Init /\ [][NextReads]_vars

\* The whole of server.js.
Next ==
  \/ NextLog
  \/ NextProcess
  \/ NextStreams
  \/ NextRecording
  \/ NextReads

Spec == Init /\ [][Next]_vars

\* ------------------------------------------------------------ properties
\* The concatenation of a sequence of texts.
RECURSIVE Flatten(_)
Flatten(texts) ==
  IF texts = <<>> THEN <<>> ELSE Head(texts) \o Flatten(Tail(texts))

\* The last min(n, Len(s)) characters of s.
LastChars(s, n) ==
  IF Len(s) <= n THEN s ELSE SubSeq(s, Len(s) - n + 1, Len(s))

HasMarker(text) == IndexOf(text, Marker) > -1

\* What follows the first "Video stream:" of the text, up to the end of its line.
MarkerLine(text) ==
  Split(SubSeq(text, IndexOf(text, Marker) + Len(Marker) + 1, Len(text)), <<"\n">>)[1]

IsInt(s) == s # <<>> /\ \A i \in 1..Len(s) : s[i] \in DOMAIN DecDigit

\* The line reads "<int> x <int>", white space aside.
WellFormed(line) ==
  LET parts == Split(line, <<"x">>)
  IN Len(parts) = 2 /\ IsInt(Trim(parts[1])) /\ IsInt(Trim(parts[2]))

\* The resolution a well-formed line announces.
Announced(line) ==
  LET parts == Split(line, <<"x">>)
  IN Resolution(Num(DigitsValue(Trim(parts[1]), DecDigit, 10, 0)),
                Num(DigitsValue(Trim(parts[2]), DecDigit, 10, 0)))

IsUncaughtLog(text) ==
  Len(text) > Len(UncaughtPrefix) /\ SubSeq(text, 1, Len(UncaughtPrefix)) = UncaughtPrefix

\* C1: after every chunk handed to the interceptor, well-formed or not, the log
\* buffer holds at most 3000 characters and is the last min(3000, total)
\* characters of the concatenation of all chunks handed over so far.
C1_BufferIsTailOfAllChunks ==
  /\ Len(stdoutBuffer) <= BufferCapacity
  /\ stdoutBuffer = LastChars(Flatten(delivered), BufferCapacity)

\* C2: a chunk that holds the marker but whose line is not two integers leaves
\* videoResolution as it was before the chunk.
C2_MalformedKeepsResolution ==
  (/\ lastCall.kind = "call"
   /\ HasMarker(lastCall.text)
   /\ ~WellFormed(MarkerLine(lastCall.text)))
    => videoResolution = lastCall.before

\* C3: the interceptor never raises: every call returns normally and has
\* appended its chunk to the log buffer.
C3_InterceptorNeverRaises ==
  lastCall.kind = "call" =>
    /\ ~lastCall.threw
    /\ LastChars(stdoutBuffer, Len(lastCall.text))
         = LastChars(lastCall.text, BufferCapacity)

\* C4: a chunk whose marker is followed on its line by "<int> x <int>" sets
\* videoResolution to those two integers, whatever else the chunk holds, and
\* hands the same value to the tracker.
C4_AnnouncementSetsResolution ==
  (/\ lastCall.kind = "call"
   /\ HasMarker(lastCall.text)
   /\ WellFormed(MarkerLine(lastCall.text)))
    => /\ videoResolution = Announced(MarkerLine(lastCall.text))
       /\ trackerResolution = Announced(MarkerLine(lastCall.text))

\* C5: every shutdown event calls clean() exactly once: when the process has
\* ended, clean() has been called once per shutdown event.
C5_CleanOncePerShutdown ==
  pc = "dead" => cleanCalls = shutdownEvents

\* C6: at most one MJPEG subscription is live at any time.
C6_SingleMjpegSubscription ==
  Cardinality({m \in mjpeg : m.upstream = "open"}) <= 1

C8_StartIsIdempotent ==
  /\ [](yolo.spawned <= 1)
  /\ [][/\ (Root /\ yolo.state # "NotStarted") => yolo' = yolo
        /\ yolo.state = "Starting" => yolo'.state \in {"Starting", "Started"}
        /\ yolo.state = "Started" => yolo'.state = "Started"]_vars

\* C8 witness: GET / has called start() on a Started engine, and one process
\* was spawned.
C8_StartedAfterRepeatedRequests ==
  /\ lastStart = "Started"
  /\ yolo.state = "Started"
  /\ yolo.spawned = 1

\* C10: an uncaught exception is logged and nothing more: the handler leaves
\* the process running and ready for the next event, and neither calls
\* clean() nor begins an exit.
C10_UncaughtIsLoggedOnly ==
  [][pc = "uncaught" =>
       /\ pc' = "run"
       /\ cleanCalls' = cleanCalls
       /\ shutdownEvents' = shutdownEvents
       /\ delivered' = Append(delivered, ConsoleLog2(UncaughtPrefix, pendingErr))
       /\ LastChars(stdoutBuffer', Len(pendingErr) + 1) = ConsoleLog1(pendingErr)]_vars

\* C10 witness: an uncaught exception was logged, afterwards the process took
\* an output chunk, and it runs, clean() never called.
C10_RunningAfterUncaught ==
  /\ pc = "run"
  /\ cleanCalls = 0
  /\ shutdownEvents = 0
  /\ \E i \in 1..(Len(delivered) - 1) :
       IsUncaughtLog(delivered[i]) /\ ~IsUncaughtLog(delivered[i + 1])

\* The value is a {w, h} pair of two integers.
Known(v) == v.kind = "resolution" /\ ~v.w.nan /\ ~v.h.nan

\* C11: videoResolution is never rolled back to unknown: once it holds a pair
\* of integers, it holds a pair of integers in every later state.
C11_KnownStaysKnown ==
  [][Known(videoResolution) => Known(videoResolution')]_vars

\* C12: the recording mode moves NotRecording -> Recording on a start
\* request and Recording -> NotRecording on a stop request only; a start
\* request while Recording creates no session and leaves the active session,
\* its id and dateStart, as it was.
C12_RecordingStateMachine ==
  [][/\ (RecordingStart /\ ~recording.isRecording) =>
          /\ recording'.isRecording
          /\ recording'.created = recording.created + 1
          /\ recording'.session.dateStart = now
     /\ (RecordingStart /\ recording.isRecording) =>
          /\ recording' = recording
          /\ persisted' = persisted
     /\ (~recording.isRecording /\ recording'.isRecording) => RecordingStart
     /\ (recording.isRecording /\ ~recording'.isRecording) => RecordingStop
     /\ (recording.isRecording /\ recording'.isRecording) =>
          recording'.session = recording.session]_vars

\* C12 witness: a start request found the session of an earlier time active,
\* and that session is still the active one.
C12_StartedTwice ==
  /\ lastRecCall = [op |-> "start", wasRecording |-> TRUE]
  /\ recording.isRecording
  /\ recording.created = 1
  /\ recording.session = [id |-> 1, dateStart |-> 0]
  /\ now > 0
  /\ response = [route |-> "/recording/start", status |-> 200]

\* C13: a stop request while NotRecording hands nothing to the storage
\* collaborator, leaves the recording mode and all session data as they were
\* and is answered 200.
C13_StopWhenNotRecording ==
  [][(RecordingStop /\ ~recording.isRecording) =>
       /\ persisted' = persisted
       /\ recording' = recording
       /\ response' = [route |-> "/recording/stop", status |-> 200]]_vars

\* C13 witness: a session was recorded and stored, and a later stop request
\* found no session active.
C13_StoppedTwice ==
  /\ lastRecCall = [op |-> "stop", wasRecording |-> FALSE]
  /\ ~recording.isRecording
  /\ Len(persisted) = 1
  /\ response = [route |-> "/recording/stop", status |-> 200]

\* C14: with a subscriber, every publishFrame writes exactly one message to
\* it and to nobody else, after the messages of the earlier calls, and the
\* message carries the videoResolution current at the call.
C14_FramesInOrderWithResolution ==
  /\ [](\A c \in 1..MaxClients : \A i, j \in 1..Len(sseWritten[c]) :
          i < j => sseWritten[c][i].frame < sseWritten[c][j].frame)
  /\ [][(frames' # frames /\ sseConnexion # 0) =>
          sseWritten' = [sseWritten EXCEPT ![sseConnexion] =
            Append(@, [frame |-> frames + 1, videoResolution |-> videoResolution])]]_vars

\* C14 witness: one subscriber was written two frames, an announcement came
\* between them and only the second frame carries the announced resolution.
C14_AnnouncedBetweenFrames ==
  /\ sseClients = 1
  /\ Len(sseWritten[1]) = 2
  /\ sseWritten[1][1].videoResolution # Resolution(Num(640), Num(480))
  /\ sseWritten[1][2].videoResolution = Resolution(Num(640), Num(480))
  /\ videoResolution = Resolution(Num(640), Num(480))

\* C15: frames are never buffered: a frame published while nobody is
\* subscribed is written to no one, a subscription writes nothing to the new
\* subscriber, and whatever is written to a client is the frame being published.
C15_FramesNeverBuffered ==
  [][/\ (frames' # frames /\ sseConnexion = 0) => sseWritten' = sseWritten
     /\ sseClients' # sseClients => sseWritten' = sseWritten
     /\ \A c \in 1..MaxClients :
          sseWritten'[c] # sseWritten[c] =>
            /\ frames' = frames + 1
            /\ Len(sseWritten'[c]) = Len(sseWritten[c]) + 1
            /\ sseWritten'[c][Len(sseWritten'[c])].frame = frames']_vars

\* C15 witness: the first frame was published before the only client
\* subscribed, and that client was written the second frame alone.
C15_MissedEarlierFrame ==
  /\ sseClients = 1
  /\ sseConnexion = 1
  /\ frames = 2
  /\ Len(sseWritten[1]) = 1
  /\ sseWritten[1][1].frame = 2

\* C16: the read endpoints are pure reads: GET /console answers the current
\* log buffer, which is at most the last 3000 characters of the output, GET
\* /webcam/resolution answers the current videoResolution (or null), and
\* serving either leaves the log buffer, the resolution, the engine state and
\* the recording state as they were.
C16_ReadsArePure ==
  [][/\ Console =>
          /\ response' = [route |-> "/console", status |-> 200, body |-> [text |-> stdoutBuffer]]
          /\ response'.body.text = LastChars(Flatten(delivered), BufferCapacity)
     /\ WebcamResolution =>
          response' = [route |-> "/webcam/resolution", status |-> 200,
                       body |-> [json |-> videoResolution]]
     /\ (Console \/ WebcamResolution) =>
          /\ stdoutBuffer' = stdoutBuffer
          /\ videoResolution' = videoResolution
          /\ trackerResolution' = trackerResolution
          /\ yolo' = yolo
          /\ recording' = recording
          /\ persisted' = persisted]_vars

\* C16 witness: GET /console was answered the 3000-character tail of a longer
\* output, which is still the buffer, with the engine started and a session
\* being recorded.
C16_ConsoleServedTail ==
  /\ response.route = "/console"
  /\ Len(response.body.text) = BufferCapacity
  /\ Len(Flatten(delivered)) > BufferCapacity
  /\ stdoutBuffer = response.body.text
  /\ videoResolution = Resolution(Num(640), Num(480))
  /\ yolo.state = "Started"
  /\ recording.isRecording

\* The chunk holds a well-formed announcement.
Successful(text) == HasMarker(text) /\ WellFormed(MarkerLine(text))

\* C17: in simulated mode videoResolution is preset to 1280 x 720 and handed
\* to the tracker before any chunk is processed; in real-hardware mode it is
\* null, and so is the answer of GET /webcam/resolution, until the first
\* successful announcement.
C17_InitialResolutionByMode ==
  /\ (simulation /\ delivered = <<>>) =>
       /\ videoResolution = Resolution(Num(SimulatedWidth), Num(SimulatedHeight))
       /\ trackerResolution = videoResolution
  /\ (~simulation /\ \A i \in 1..Len(delivered) : ~Successful(delivered[i])) =>
       videoResolution = Null

\* C18: the two copies of the resolution agree: in every reachable state the
\* value GET /webcam/resolution serves (videoResolution) is the value last
\* handed to setVideoResolution, both null before the first hand-over.
C18_CopiesAgree ==
  videoResolution = trackerResolution

\* C18 witness: an announcement has replaced the resolution, and the tracker
\* holds the new value.
C18_AnnouncedToBoth ==
  /\ lastCall.kind = "call"
  /\ HasMarker(lastCall.text)
  /\ ~lastCall.threw
  /\ videoResolution # lastCall.before
  /\ trackerResolution = Resolution(Num(640), Num(480))

\* The text between the first "stream:" of the chunk and the next line end.
FirstStreamLine(text) ==
  Split(SubSeq(text, IndexOf(text, StreamSep) + Len(StreamSep) + 1, Len(text)),
        <<"\n">>)[1]

\* The two numbers parseInt reads on either side of the first "x" of the line.
ParsedFrom(line) ==
  LET parts == Split(line, <<"x">>)
  IN Resolution(ParseInt(Trim(parts[1])), ParseInt(Trim(parts[2])))

C20_SignalsTerminate ==
  /\ [](cleanCalls <= 2)
  /\ [][/\ SignalArrives => (pc' = "exiting" /\ cleanCalls' = cleanCalls + 1)
        /\ pc = "exiting" =>
             /\ pc' = "dead"
             /\ cleanCalls' = cleanCalls + 1
             /\ shutdownEvents' = shutdownEvents
        /\ pc # "dead"]_vars
  /\ (pc = "exiting" ~> pc = "dead")

\* C20 witness: a signal was handled, the exit handler ran after it and the
\* process has ended.
C20_EndedAfterSignal ==
  /\ pc = "dead"
  /\ shutdownEvents = 1
  /\ cleanCalls = 2
  /\ \E i \in 1..(Len(delivered) - 1) :
       /\ delivered[i] \in {ConsoleLog1(sig) : sig \in Signals}
       /\ delivered[i + 1] = ConsoleLog1(ExitCodeZero)

=============================================================================
